---- MODULE Spec2Model ----
(***************************************************************************)
(* A model of src/app.py, the Streamlit script "deep_research_reddit.py". *)
(*                                                                         *)
(* The script is executed top to bottom on every user interaction.  The    *)
(* only state that outlives one execution is st.session_state, of which    *)
(* the script uses the single key "authenticated".  Everything else is a   *)
(* module-level or function-local variable of the current execution.       *)
(*                                                                         *)
(* pc is the position of the current execution in the script.  Every       *)
(* blocking round trip to the forum API or to the language model is two    *)
(* steps: the request (logged in calls, outstanding in pending) and the    *)
(* response, whose outcome is chosen by the environment.                   *)
(*                                                                         *)
(* Texts are kept as sequences of runs [src, n]: the first n characters of *)
(* the text named src.  Slicing, joining and length are computed on runs.  *)
(*                                                                         *)
(* Left out, because they change no variable of the model: the wording of  *)
(* the prompts, the genre field, the CSS, the status and sample lines, the *)
(* elapsed-time ticker and the time.sleep between batches.                 *)
(***************************************************************************)
EXTENDS Integers, Sequences, FiniteSets, TLC

VARIABLES
    authenticated,  \* st.session_state["authenticated"]
    pc,             \* position of the running script execution
    keys,           \* which of the three credentials are non-empty
    subreddit,      \* `subreddit`, after .strip()
    n_posts,        \* `n_posts`, the slider value
    qs_text,        \* `qs_text`, the text area, as its lines
    questions,      \* `questions`
    run_clicked,    \* value of st.button("Run research")
    calls,          \* every request issued in this execution, in order
    pending,        \* indices into calls of the requests not yet answered
    acc,            \* fetch_threads' local `threads`
    threads,        \* the driver's `threads` (the dicts it holds)
    batch,          \* summarise_threads' parameter `batch`
    total,          \* summarise_threads' local `total`
    done,           \* summarise_threads' local `done`
    i,              \* summarise_threads' loop variable `i`
    summaries,      \* summarise_threads' local `summaries`
    assigned,       \* per thread, how often line 120 assigned t["summary"]
    fractions,      \* the values passed to progress_bar.progress, as <<done, total>>
    report_md,      \* `report_md`
    downloads,      \* the st.download_button calls made, in order
    error           \* the uncaught exception that ended the execution, or "none"

vars == <<authenticated, pc, keys, subreddit, n_posts, qs_text, questions,
          run_clicked, calls, pending, acc, threads, batch, total, done, i,
          summaries, assigned, fractions, report_md, downloads, error>>

(***************************************************************************)
(* Bounds of the model.                                                    *)
(***************************************************************************)
\* the forum holds at most this many posts when the script fetches
MaxPosts == 7
\* longest text area, in lines
MaxLines == 6
\* direct calls of summarise_threads: longest thread list, largest batch
\* size, and most batches
MaxThreads == 12
MaxBatch == 6
MaxBatches == 3
\* direct calls of generate_report: most threads, and how far below the
\* corpus cap the long gists start
MaxCorpusThreads == 2
Window == 3

(***************************************************************************)
(* Program constants.                                                      *)
(***************************************************************************)
BatchDefault == 6
CorpusCap == 15000
MaxQuestions == 5
BodyCap == 4000
CommentsCap == 6000
SliderMin == 10
SliderDefault == 50

Min(a, b) == IF a <= b THEN a ELSE b

(***************************************************************************)
(* Texts.                                                                  *)
(***************************************************************************)
Txt(kind, k, n) == IF n = 0 THEN <<>> ELSE <<[src |-> <<kind, k>>, n |-> n]>>

RECURSIVE TextLen(_)
TextLen(s) == IF s = <<>> THEN 0 ELSE Head(s).n + TextLen(Tail(s))

\* s[:k]
RECURSIVE Take(_, _)
Take(s, k) ==
    IF s = <<>> \/ k <= 0 THEN <<>>
    ELSE IF Head(s).n <= k
         THEN <<Head(s)>> \o Take(Tail(s), k - Head(s).n)
         ELSE <<[Head(s) EXCEPT !.n = k]>>

\* sep.join(parts)
RECURSIVE Join(_, _)
Join(sep, parts) ==
    IF parts = <<>> THEN <<>>
    ELSE IF Len(parts) = 1 THEN Head(parts)
    ELSE Head(parts) \o sep \o Join(sep, Tail(parts))

(***************************************************************************)
(* Character strings typed by the user: sequences of characters.           *)
(***************************************************************************)
IsSpace(c) == c \in {" ", "\t"}

RECURSIVE LStrip(_)
LStrip(s) == IF s # <<>> /\ IsSpace(Head(s)) THEN LStrip(Tail(s)) ELSE s

RECURSIVE RStrip(_)
RStrip(s) ==
    IF s # <<>> /\ IsSpace(s[Len(s)]) THEN RStrip(SubSeq(s, 1, Len(s) - 1)) ELSE s

\* str.strip()
Strip(s) == RStrip(LStrip(s))

SeqsUpTo(S, n) == UNION {[1..k -> S] : k \in 0..n}

\* what the user may have typed into one line of the text area
LineInputs == {<<>>, <<" ">>, <<"a">>, <<" ", "b", " ">>}
\* what the user may have typed into the "Subreddit" field
SubredditInputs == {<<>>, <<" ">>, <<" ", "s">>}
\* the positions the model lets the "Threads" slider take
SliderInputs == {SliderMin, SliderDefault}

\* line 172: [q.strip() for q in qs_text.splitlines() if q.strip()][:5]
RECURSIVE StrippedNonBlank(_)
StrippedNonBlank(lines) ==
    IF lines = <<>> THEN <<>>
    ELSE IF Strip(Head(lines)) # <<>>
         THEN <<Strip(Head(lines))>> \o StrippedNonBlank(Tail(lines))
         ELSE StrippedNonBlank(Tail(lines))

\* the comprehension of line 172 without its [:5]
ParseQuestionsUncut(lines) == StrippedNonBlank(lines)

ParseQuestions(lines) ==
    SubSeq(StrippedNonBlank(lines), 1, Min(MaxQuestions, Len(StrippedNonBlank(lines))))

(***************************************************************************)
(* Threads and summaries.                                                  *)
(***************************************************************************)
\* lines 83-90: the dict fetch_threads builds for the k-th post of the listing
PostOf(k) ==
    [id       |-> k,
     title    |-> Txt("title", k, 40 + k),
     body     |-> IF k % 2 = 0 THEN <<>> ELSE Txt("body", k, 4500),
     comments |-> Txt("comments", k, 900),
     url      |-> Txt("url", k, 60),
     created  |-> 20000 - k]

Fetched(n) == [k \in 1..n |-> PostOf(k)]

Ids(ts) == [k \in 1..Len(ts) |-> ts[k].id]

\* JSON values a summary can be: an object with some of the four keys, or
\* something that is not an object
SummaryKeys == {"gist", "insight1", "insight2", "sentiment"}
EmptyObject == [type |-> "object", fields |-> {}, gist |-> <<>>]
FullObject(id, glen) ==
    [type |-> "object", fields |-> SummaryKeys, gist |-> Txt("gist", id, glen)]
NotAnObject == [type |-> "string", fields |-> {}, gist |-> <<>>]

\* summary.get('gist', '')
GetGist(v) == IF "gist" \in v.fields THEN v.gist ELSE <<>>

\* a lookup without the default: summaries.get(id), None for a missing id
GetSummaryNoDefault(m, id) == IF id \in DOMAIN m THEN m[id] ELSE NotAnObject

\* summaries.get(id, {})
GetSummary(m, id) == IF id \in DOMAIN m THEN m[id] ELSE EmptyObject

\* the assignment, with the body cut in place to the payload's 4000 characters
SetSummaryCuttingBody(t, v) == ("summary" :> v) @@ [t EXCEPT !.body = Take(t.body, BodyCap)]

\* t["summary"] = v
SetSummary(t, v) == ("summary" :> v) @@ t

HasSummary(t) == "summary" \in DOMAIN t

\* threads[i:i + batch], as the positions it covers
ChunkRange(start, b, n) == (start + 1)..Min(start + b, n)

\* a slice that runs one thread too far: threads[i:i + batch + 1]
ChunkOneTooFar(ts, start, b) == SubSeq(ts, start + 1, Min(start + b + 1, Len(ts)))

Chunk(ts, start, b) == SubSeq(ts, start + 1, Min(start + b, Len(ts)))

\* lines 99-102: the payload dict of one batch
Payload(chunk) ==
    [id \in {chunk[k].id : k \in 1..Len(chunk)} |->
        LET t == chunk[CHOOSE k \in 1..Len(chunk) :
                          /\ chunk[k].id = id
                          /\ \A j \in (k + 1)..Len(chunk) : chunk[j].id # id]
        IN  t.title \o Txt("nn", 0, 2) \o Take(t.body, BodyCap)
              \o Txt("nnCommentsn", 0, 12) \o Take(t.comments, CommentsCap)]

\* the mappings the language model may answer a batch with: every id, all
\* but the first, all but the last, or none; the values all objects or all
\* strings
ValueKinds == {"object", "string"}
ModelValue(kind, id) == IF kind = "object" THEN FullObject(id, 300) ELSE NotAnObject
Omissions(chunk) ==
    {{}, {chunk[1].id}, {chunk[Len(chunk)].id}, {chunk[k].id : k \in 1..Len(chunk)}}
ModelMappings(chunk) ==
    {[id \in {chunk[k].id : k \in 1..Len(chunk)} \ omit |-> ModelValue(kind, id)] :
        omit \in Omissions(chunk), kind \in ValueKinds}

\* lines 128-130: the corpus generate_report sends
CorpusEntry(t) ==
    t.title \o Txt(" - ", 0, 3) \o GetGist(t.summary)
            \o Txt(" [URL](", 0, 7) \o t.url \o Txt(")", 0, 1)

JoinedEntries(ts) ==
    Join(Txt("nn", 0, 2), [k \in 1..Len(ts) |-> CorpusEntry(ts[k])])

\* a slice that keeps one character too many: [:15001]
CorpusOneTooLong(ts) == Take(JoinedEntries(ts), CorpusCap + 1)

Corpus(ts) == Take(JoinedEntries(ts), CorpusCap)

\* the reports the language model may return, as character sequences
Reports == {<<"r", "e">>, <<"r", "e-acute", "en-dash">>}

\* unidecode(text)
UnidecodeChar(c) == IF c = "e-acute" THEN "e" ELSE IF c = "en-dash" THEN "-" ELSE c
Unidecode(text) == [k \in 1..Len(text) |-> UnidecodeChar(text[k])]

Call(kind, ids, payload, corpus) ==
    [kind |-> kind, ids |-> ids, payload |-> payload, corpus |-> corpus]

Terminal == {"stopped", "done", "crashed"}

(***************************************************************************)
(* Lines 22-33: the password gate.                                         *)
(***************************************************************************)
ValidPasswords == {"raghavan", "Abiriscool123!"}
PasswordInputs == {"", "raghavan", "Abiriscool123!", "letmein"}

NoKeys == [openai |-> FALSE, client_id |-> FALSE, client_secret |-> FALSE]

\* the locals of an execution that has just started
FreshLocals ==
    /\ keys = NoKeys
    /\ subreddit = <<>>
    /\ n_posts = SliderDefault
    /\ qs_text = <<>>
    /\ questions = <<>>
    /\ run_clicked = FALSE
    /\ calls = <<>>
    /\ pending = {}
    /\ acc = <<>>
    /\ threads = <<>>
    /\ batch = BatchDefault
    /\ total = 0
    /\ done = 0
    /\ i = 0
    /\ summaries = <<>>
    /\ assigned = <<>>
    /\ fractions = <<>>
    /\ report_md = <<>>
    /\ downloads = <<>>
    /\ error = "none"

ResetLocals ==
    /\ keys' = NoKeys
    /\ subreddit' = <<>>
    /\ n_posts' = SliderDefault
    /\ qs_text' = <<>>
    /\ questions' = <<>>
    /\ run_clicked' = FALSE
    /\ calls' = <<>>
    /\ pending' = {}
    /\ acc' = <<>>
    /\ threads' = <<>>
    /\ batch' = BatchDefault
    /\ total' = 0
    /\ done' = 0
    /\ i' = 0
    /\ summaries' = <<>>
    /\ assigned' = <<>>
    /\ fractions' = <<>>
    /\ report_md' = <<>>
    /\ downloads' = <<>>
    /\ error' = "none"

Init ==
    /\ authenticated = FALSE
    /\ pc = "gate"
    /\ FreshLocals

\* an exception caught and reported, after which the script goes on to the
\* report
RaiseCaught(e) ==
    /\ pc' = "report"
    /\ error' = e

\* an uncaught exception: Streamlit shows it and the execution ends
Raise(e) ==
    /\ pc' = "crashed"
    /\ error' = e

\* a user interaction in the same browser session runs the script again
Rerun ==
    /\ pc \in Terminal
    /\ pc' = "gate"
    /\ ResetLocals
    /\ UNCHANGED authenticated

\* a new browser session starts with an empty st.session_state
NewSession ==
    /\ pc \in Terminal
    /\ pc' = "gate"
    /\ authenticated' = FALSE
    /\ ResetLocals

\* lines 22-33
PasswordGate ==
    /\ pc = "gate"
    /\ IF authenticated
       THEN /\ pc' = "env"
            /\ UNCHANGED authenticated
       ELSE \E pwd \in PasswordInputs, submit \in BOOLEAN :
              IF submit /\ pwd \in ValidPasswords
              THEN \* st.rerun(): the script starts again from the top
                   /\ authenticated' = TRUE
                   /\ pc' = "gate"
              ELSE \* st.stop()
                   /\ pc' = "stopped"
                   /\ UNCHANGED authenticated
    /\ UNCHANGED <<keys, subreddit, n_posts, qs_text, questions, run_clicked,
                   calls, pending, acc, threads, batch, total, done, i,
                   summaries, assigned, fractions, report_md, downloads, error>>

\* the check of line 55 written with any() instead of all()
LoadKeysAny ==
    /\ pc = "env"
    /\ \E k \in [{"openai", "client_id", "client_secret"} -> BOOLEAN] :
         /\ keys' = k
         /\ pc' = IF k.openai \/ k.client_id \/ k.client_secret
                  THEN "ui" ELSE "stopped"
    /\ UNCHANGED <<authenticated, subreddit, n_posts, qs_text, questions,
                   run_clicked, calls, pending, acc, threads, batch, total,
                   done, i, summaries, assigned, fractions, report_md,
                   downloads, error>>

\* lines 49-57
LoadKeys ==
    /\ pc = "env"
    /\ \E k \in [{"openai", "client_id", "client_secret"} -> BOOLEAN] :
         /\ keys' = k
         /\ pc' = IF k.openai /\ k.client_id /\ k.client_secret
                  THEN "ui" ELSE "stopped"
    /\ UNCHANGED <<authenticated, subreddit, n_posts, qs_text, questions,
                   run_clicked, calls, pending, acc, threads, batch, total,
                   done, i, summaries, assigned, fractions, report_md,
                   downloads, error>>

\* lines 153-174: the widgets are drawn and their values read
RenderUI ==
    /\ pc = "ui"
    /\ \E sub \in SubredditInputs, n \in SliderInputs,
          text \in SeqsUpTo(LineInputs, MaxLines), clicked \in BOOLEAN :
         /\ subreddit' = Strip(sub)
         /\ n_posts' = n
         /\ qs_text' = text
         /\ questions' = ParseQuestions(text)
         /\ run_clicked' = clicked
    /\ pc' = "run"
    /\ UNCHANGED <<authenticated, keys, calls, pending, acc, threads, batch,
                   total, done, i, summaries, assigned, fractions, report_md,
                   downloads, error>>

\* lines 174-182.  qs_text is not read after line 172: the model forgets it
\* here.
RunButton ==
    /\ pc = "run"
    /\ pc' = IF ~run_clicked THEN "done"
             ELSE IF subreddit = <<>> THEN "stopped"
             ELSE IF questions = <<>> THEN "stopped"
             ELSE "fetch"
    /\ qs_text' = <<>>
    /\ UNCHANGED <<authenticated, keys, subreddit, n_posts, questions,
                   run_clicked, calls, pending, acc, threads, batch, total,
                   done, i, summaries, assigned, fractions, report_md,
                   downloads, error>>

(***************************************************************************)
(* Lines 78-92 and 182-183: fetch_threads.                                 *)
(***************************************************************************)
\* line 80: the listing is asked for its next post, unless `limit` posts
\* were already yielded; then line 92 returns.  One request stands for the
\* round trips of one iteration: the listing page and replace_more.
ForumRequest ==
    /\ pc = "fetch"
    /\ IF Len(acc) < n_posts
       THEN /\ calls' = Append(calls, Call("forum", <<>>, <<>>, <<>>))
            /\ pending' = pending \cup {Len(calls) + 1}
            /\ pc' = "fetch_wait"
            /\ UNCHANGED <<threads, assigned>>
       ELSE /\ threads' = acc
            /\ assigned' = [k \in 1..Len(acc) |-> 0]
            /\ pc' = "summarise"
            /\ UNCHANGED <<calls, pending>>
    /\ UNCHANGED <<authenticated, keys, subreddit, n_posts, qs_text, questions,
                   run_clicked, acc, batch, total, done, i, summaries,
                   fractions, report_md, downloads, error>>

\* lines 80-91: the forum fails, or yields the next post with its comment
\* tree expanded; line 92: or the listing is exhausted
ForumFails ==
    /\ pc = "fetch_wait"
    /\ pending' = {}
    /\ Raise("fetch")
    /\ UNCHANGED <<authenticated, keys, subreddit, n_posts, qs_text, questions,
                   run_clicked, calls, acc, threads, batch, total, done, i,
                   summaries, assigned, fractions, report_md, downloads>>

ForumYieldsPost ==
    /\ pc = "fetch_wait"
    /\ Len(acc) < MaxPosts
    /\ pending' = {}
    /\ acc' = Append(acc, PostOf(Len(acc) + 1))
    /\ pc' = "fetch"
    /\ UNCHANGED <<authenticated, keys, subreddit, n_posts, qs_text, questions,
                   run_clicked, calls, threads, batch, total, done, i,
                   summaries, assigned, fractions, report_md, downloads, error>>

ForumExhausted ==
    /\ pc = "fetch_wait"
    /\ pending' = {}
    /\ threads' = acc
    /\ assigned' = [k \in 1..Len(acc) |-> 0]
    /\ pc' = "summarise"
    /\ UNCHANGED <<authenticated, keys, subreddit, n_posts, qs_text, questions,
                   run_clicked, calls, acc, batch, total, done, i, summaries,
                   fractions, report_md, downloads, error>>

(***************************************************************************)
(* Lines 94-125 and 185-189: summarise_threads.                            *)
(* Between two iterations i holds the next value of range(0, total,        *)
(* batch); during an iteration it is the script's i.                       *)
(***************************************************************************)
\* lines 95-96
SummariseStart ==
    /\ pc = "summarise"
    /\ total' = Len(threads)
    /\ done' = 0
    /\ i' = 0
    /\ pc' = "batch"
    /\ UNCHANGED <<authenticated, keys, subreddit, n_posts, qs_text, questions,
                   run_clicked, calls, pending, acc, threads, batch, summaries,
                   assigned, fractions, report_md, downloads, error>>

\* lines 97-117: the next batch is sent; line 125: or the loop is over
SummariseRequest ==
    /\ pc = "batch"
    /\ IF i < total
       THEN /\ calls' = Append(calls,
                   Call("summarise", Ids(Chunk(threads, i, batch)),
                        Payload(Chunk(threads, i, batch)), <<>>))
            /\ pending' = pending \cup {Len(calls) + 1}
            /\ pc' = "batch_wait"
       ELSE /\ pc' = "gists"
            /\ UNCHANGED <<calls, pending>>
    /\ UNCHANGED <<authenticated, keys, subreddit, n_posts, qs_text, questions,
                   run_clicked, acc, threads, batch, total, done, i, summaries,
                   assigned, fractions, report_md, downloads, error>>

\* line 117 raises
SummariseCallFails ==
    /\ pc = "batch_wait"
    /\ pending' = {}
    /\ Raise("summarise call")
    /\ UNCHANGED <<authenticated, keys, subreddit, n_posts, qs_text, questions,
                   run_clicked, calls, acc, threads, batch, total, done, i,
                   summaries, assigned, fractions, report_md, downloads>>

\* line 118 raises: the content is not JSON; or line 120 raises: it is JSON
\* but has no .get
SummariseParseFails ==
    /\ pc = "batch_wait"
    /\ pending' = {}
    /\ \E e \in {"json.loads", "summaries.get"} : Raise(e)
    /\ UNCHANGED <<authenticated, keys, subreddit, n_posts, qs_text, questions,
                   run_clicked, calls, acc, threads, batch, total, done, i,
                   summaries, assigned, fractions, report_md, downloads>>

\* the merge with line 121 written as done += batch
SummariseMergeCountsBatch(m) ==
    /\ summaries' = m
    /\ threads' = [k \in 1..Len(threads) |->
                     IF k \in ChunkRange(i, batch, Len(threads))
                     THEN SetSummary(threads[k], GetSummary(m, threads[k].id))
                     ELSE threads[k]]
    /\ assigned' = [k \in 1..Len(threads) |->
                     IF k \in ChunkRange(i, batch, Len(threads))
                     THEN assigned[k] + 1 ELSE assigned[k]]
    /\ done' = done + batch
    /\ fractions' = Append(fractions, <<done + batch, total>>)
    /\ i' = i + batch
    /\ pc' = "batch"

\* lines 118-124: the content is a JSON object
SummariseMerge(m) ==
    /\ summaries' = m
    /\ threads' = [k \in 1..Len(threads) |->
                     IF k \in ChunkRange(i, batch, Len(threads))
                     THEN SetSummary(threads[k], GetSummary(m, threads[k].id))
                     ELSE threads[k]]
    /\ assigned' = [k \in 1..Len(threads) |->
                     IF k \in ChunkRange(i, batch, Len(threads))
                     THEN assigned[k] + 1 ELSE assigned[k]]
    /\ done' = done + Len(Chunk(threads, i, batch))
    /\ fractions' = Append(fractions, <<done + Len(Chunk(threads, i, batch)), total>>)
    /\ i' = i + batch
    /\ pc' = "batch"

SummariseResponse ==
    /\ pc = "batch_wait"
    /\ pending' = {}
    /\ \E m \in ModelMappings(Chunk(threads, i, batch)) : SummariseMerge(m)
    /\ UNCHANGED <<authenticated, keys, subreddit, n_posts, qs_text, questions,
                   run_clicked, calls, acc, batch, total, report_md, downloads,
                   error>>

(***************************************************************************)
(* Lines 191-199: the gists expander and generate_report.                  *)
(***************************************************************************)
\* the expander followed at once by the download section, generate_report
\* left for later
ShowGistsThenDownloads ==
    /\ pc = "gists"
    /\ IF \A k \in 1..Len(threads) :
            HasSummary(threads[k]) /\ threads[k].summary.type = "object"
       THEN pc' = "txt" /\ UNCHANGED error
       ELSE Raise("gists")
    /\ UNCHANGED <<authenticated, keys, subreddit, n_posts, qs_text, questions,
                   run_clicked, calls, pending, acc, threads, batch, total,
                   done, i, summaries, assigned, fractions, report_md,
                   downloads>>

\* line 193: {**t["summary"]} raises when a summary is not a mapping
ShowGists ==
    /\ pc = "gists"
    /\ IF \A k \in 1..Len(threads) :
            HasSummary(threads[k]) /\ threads[k].summary.type = "object"
       THEN pc' = "report" /\ UNCHANGED error
       ELSE Raise("gists")
    /\ UNCHANGED <<authenticated, keys, subreddit, n_posts, qs_text, questions,
                   run_clicked, calls, pending, acc, threads, batch, total,
                   done, i, summaries, assigned, fractions, report_md,
                   downloads>>

\* lines 128-148
SynthesisRequest ==
    /\ pc = "report"
    /\ IF \A k \in 1..Len(threads) :
            HasSummary(threads[k]) /\ threads[k].summary.type = "object"
       THEN /\ calls' = Append(calls, Call("synthesis", Ids(threads), <<>>, Corpus(threads)))
            /\ pending' = pending \cup {Len(calls) + 1}
            /\ pc' = "report_wait"
            /\ UNCHANGED error
       ELSE /\ Raise("corpus")
            /\ UNCHANGED <<calls, pending>>
    /\ UNCHANGED <<authenticated, keys, subreddit, n_posts, qs_text, questions,
                   run_clicked, acc, threads, batch, total, done, i, summaries,
                   assigned, fractions, report_md, downloads>>

\* line 148 raises
SynthesisFails ==
    /\ pc = "report_wait"
    /\ pending' = {}
    /\ Raise("synthesis")
    /\ UNCHANGED <<authenticated, keys, subreddit, n_posts, qs_text, questions,
                   run_clicked, calls, acc, threads, batch, total, done, i,
                   summaries, assigned, fractions, report_md, downloads>>

\* lines 148-150 and 196-199
SynthesisResponse ==
    /\ pc = "report_wait"
    /\ pending' = {}
    /\ \E r \in Reports : report_md' = r
    /\ pc' = "txt"
    /\ UNCHANGED <<authenticated, keys, subreddit, n_posts, qs_text, questions,
                   run_clicked, calls, acc, threads, batch, total, done, i,
                   summaries, assigned, fractions, downloads, error>>

(***************************************************************************)
(* Lines 201-262: the downloads.                                           *)
(***************************************************************************)
Download(file_name, mime, from, data) ==
    [file_name |-> file_name, mime |-> mime, from |-> from, data |-> data]

\* lines 205-207
DownloadTxt ==
    /\ pc = "txt"
    /\ downloads' = Append(downloads,
          Download("reddit_research_report.txt", "text/plain", report_md, report_md))
    /\ pc' = "pdf"
    /\ UNCHANGED <<authenticated, keys, subreddit, n_posts, qs_text, questions,
                   run_clicked, calls, pending, acc, threads, batch, total,
                   done, i, summaries, assigned, fractions, report_md, error>>

\* lines 220-225: chapter_body lays out unidecode(text), or the word
\* "Exception" when that raises
ChapterBodies(text) == {Unidecode(text), <<"Exception">>}

\* lines 210-233; pdf.output(pdf_output) writes into the buffer, as in the
\* fpdf2 API that line 240 is written for
DownloadPdf ==
    /\ pc = "pdf"
    /\ \E body \in ChapterBodies(report_md) :
         downloads' = Append(downloads,
            Download("reddit_research_report.pdf", "application/pdf", report_md, body))
    /\ pc' = "pdf2"
    /\ UNCHANGED <<authenticated, keys, subreddit, n_posts, qs_text, questions,
                   run_clicked, calls, pending, acc, threads, batch, total,
                   done, i, summaries, assigned, fractions, report_md, error>>

\* The names bound at module level when line 259 runs.  Lines 237-258
\* bind PDF; build_pdf is defined in the body of class PDF (line 247), so
\* it is an attribute of PDF and not a module-level name.
ModuleNames == {"st", "openai", "reddit", "fetch_threads", "summarise_threads",
                "generate_report", "tick", "FPDF", "unidecode", "PDF", "pdf",
                "pdf_output", "txt_buf", "report_md", "threads", "questions"}

\* lines 235-259: build_pdf(report_md) raises NameError, so lines 260-262
\* (the second PDF button and the last tick()) are never reached
SecondPdf ==
    /\ pc = "pdf2"
    /\ IF "build_pdf" \in ModuleNames
       THEN /\ downloads' = Append(downloads,
                 Download("reddit_research_report.pdf", "application/pdf",
                          report_md, Unidecode(report_md)))
            /\ pc' = "done"
            /\ UNCHANGED error
       ELSE /\ Raise("NameError")
            /\ UNCHANGED downloads
    /\ UNCHANGED <<authenticated, keys, subreddit, n_posts, qs_text, questions,
                   run_clicked, calls, pending, acc, threads, batch, total,
                   done, i, summaries, assigned, fractions, report_md>>

Next ==
    \/ Rerun
    \/ NewSession
    \/ PasswordGate
    \/ LoadKeys
    \/ RenderUI
    \/ RunButton
    \/ ForumRequest
    \/ ForumFails
    \/ ForumYieldsPost
    \/ ForumExhausted
    \/ SummariseStart
    \/ SummariseRequest
    \/ SummariseCallFails
    \/ SummariseParseFails
    \/ SummariseResponse
    \/ ShowGists
    \/ SynthesisRequest
    \/ SynthesisFails
    \/ SynthesisResponse
    \/ DownloadTxt
    \/ DownloadPdf
    \/ SecondPdf

Spec == Init /\ [][Next]_vars

(***************************************************************************)
(* summarise_threads called on its own: any fetched list of up to          *)
(* MaxThreads threads and any batch size from 1 to MaxBatch that takes at  *)
(* most MaxBatches batches.                                                *)
(***************************************************************************)
AllKeys == [openai |-> TRUE, client_id |-> TRUE, client_secret |-> TRUE]

InitSummarise ==
    /\ authenticated = TRUE
    /\ pc = "summarise"
    /\ keys = AllKeys
    /\ subreddit = <<"s">>
    /\ n_posts = SliderDefault
    /\ qs_text = <<>>
    /\ questions = <<<<"a">>>>
    /\ run_clicked = TRUE
    /\ calls = <<>>
    /\ pending = {}
    /\ acc = <<>>
    /\ \E n \in 0..MaxThreads :
         /\ threads = Fetched(n)
         /\ assigned = [k \in 1..n |-> 0]
         /\ batch \in {b \in 1..MaxBatch : n <= b * MaxBatches}
    /\ total = 0
    /\ done = 0
    /\ i = 0
    /\ summaries = <<>>
    /\ fractions = <<>>
    /\ report_md = <<>>
    /\ downloads = <<>>
    /\ error = "none"

NextSummarise ==
    \/ SummariseStart
    \/ SummariseRequest
    \/ SummariseCallFails
    \/ SummariseParseFails
    \/ SummariseResponse

SpecSummarise == InitSummarise /\ [][NextSummarise]_vars

(***************************************************************************)
(* generate_report called on its own: up to MaxCorpusThreads summarised    *)
(* threads whose gists are missing, short, or long enough to bring the     *)
(* joined entries within Window characters of the corpus cap.              *)
(***************************************************************************)
\* the length of thread k's corpus entry without its gist
EntryOverhead(k) == TextLen(CorpusEntry(SetSummary(PostOf(k), EmptyObject)))

GistLengths ==
    {300} \cup
    {c + d : c \in {CorpusCap - EntryOverhead(1),
                    (CorpusCap - EntryOverhead(1) - 2 - EntryOverhead(2)) \div 2},
             d \in (0 - Window)..Window}

\* a summary a thread may carry: the empty mapping "none", or an object
\* whose gist has the given length
GistChoices == {0} \cup GistLengths
SummaryChoice(k, g) == IF g = 0 THEN EmptyObject ELSE FullObject(k, g)

InitReport ==
    /\ authenticated = TRUE
    /\ pc = "report"
    /\ keys = AllKeys
    /\ subreddit = <<"s">>
    /\ n_posts = SliderDefault
    /\ qs_text = <<>>
    /\ questions = <<<<"a">>>>
    /\ run_clicked = TRUE
    /\ calls = <<>>
    /\ pending = {}
    /\ acc = <<>>
    /\ \E n \in 0..MaxCorpusThreads : \E g \in [1..n -> GistChoices] :
         threads = [k \in 1..n |-> SetSummary(PostOf(k), SummaryChoice(k, g[k]))]
    /\ assigned = [k \in 1..Len(threads) |-> 1]
    /\ batch = BatchDefault
    /\ total = 0
    /\ done = 0
    /\ i = 0
    /\ summaries = <<>>
    /\ fractions = <<>>
    /\ report_md = <<>>
    /\ downloads = <<>>
    /\ error = "none"

NextReport ==
    \/ SynthesisRequest
    \/ SynthesisFails
    \/ SynthesisResponse

SpecReport == InitReport /\ [][NextReport]_vars

(***************************************************************************)
(* Properties.                                                             *)
(***************************************************************************)
CallsOfKind(kind) == SelectSeq(calls, LAMBDA c : c.kind = kind)

RECURSIVE Flatten(_)
Flatten(ss) == IF ss = <<>> THEN <<>> ELSE Head(ss) \o Flatten(Tail(ss))

CeilDiv(n, b) == (n + b - 1) \div b

\* C1: the batches summarise_threads sends hold at most `batch` threads
\* each, and in the order sent they are, joined end to end, a prefix of the
\* thread list; once the function has returned they are the whole list:
\* the same threads, in the same order, none skipped, none twice.
C1_BatchesPartitionThreads ==
    LET sent == CallsOfKind("summarise")
        ids  == Flatten([k \in 1..Len(sent) |-> sent[k].ids])
    IN  /\ \A k \in 1..Len(sent) : Len(sent[k].ids) \in 1..batch
        /\ Len(ids) <= Len(threads)
        /\ ids = [k \in 1..Len(ids) |-> threads[k].id]
        /\ pc = "gists" => Len(ids) = Len(threads)

\* 12 threads in batches of 5 were summarised: batches of 5, 5 and 2
C1_Witness ==
    /\ pc = "gists"
    /\ Len(threads) = 12
    /\ batch = 5
    /\ Len(CallsOfKind("summarise")) = 3
    /\ Len(calls[3].ids) = 2

\* C2: with n >= 1 threads and batch size b, the k-th progress fraction is
\* min(k*b, n)/n, the fractions increase strictly, none exceeds 1, one call
\* is issued per batch, and when summarise_threads returns it has issued
\* ceil(n/b) calls and the last fraction is n/n; 12 threads in batches of 6
\* give two calls and the fractions 1/2 and 1.
C2_CallsAndFractions ==
    (pc \in {"batch", "batch_wait", "gists", "crashed"} /\ total >= 1) =>
        LET sent == Len(CallsOfKind("summarise")) IN
        /\ \A k \in 1..Len(fractions) :
              /\ fractions[k] = <<Min(k * batch, total), total>>
              /\ fractions[k][1] <= fractions[k][2]
              /\ k > 1 => fractions[k - 1][1] * fractions[k][2]
                             < fractions[k][1] * fractions[k - 1][2]
        /\ sent = Len(fractions) + (IF pc \in {"batch_wait", "crashed"} THEN 1 ELSE 0)
        /\ pc = "gists" =>
              /\ sent = CeilDiv(total, batch)
              /\ fractions[Len(fractions)][1] = fractions[Len(fractions)][2]
        /\ (pc = "gists" /\ total = 12 /\ batch = 6) =>
              /\ sent = 2
              /\ Len(fractions) = 2
              /\ 2 * fractions[1][1] = fractions[1][2]
              /\ fractions[2][1] = fractions[2][2]

\* 12 threads in batches of 6 were summarised
C2_Witness ==
    /\ pc = "gists"
    /\ total = 12
    /\ batch = 6
    /\ Len(fractions) = 2

\* C3: after a batch whose response is a mapping, every thread of the batch
\* whose id is a key has that key's value as its summary and every other
\* thread of the batch has the empty mapping; the loop goes on (only a
\* failed call or an unparsable response ends it), and when
\* summarise_threads has returned every thread has a summary.
C3_MissingIdGetsEmptyMapping ==
    /\ (pc \in {"batch", "gists"} /\ fractions # <<>>) =>
          \A k \in (i - batch + 1)..Min(i, total) :
             /\ "summary" \in DOMAIN threads[k]
             /\ threads[k].id \in DOMAIN summaries
                   => threads[k].summary = summaries[threads[k].id]
             /\ threads[k].id \notin DOMAIN summaries
                   => threads[k].summary = [type |-> "object", fields |-> {}, gist |-> <<>>]
    /\ pc \in {"batch", "batch_wait", "gists"} =>
          \A k \in 1..done : "summary" \in DOMAIN threads[k]
    /\ pc = "gists" =>
          /\ done = Len(threads)
          /\ \A k \in 1..Len(threads) : "summary" \in DOMAIN threads[k]
    /\ pc = "crashed" => error \in {"summarise call", "json.loads", "summaries.get"}

\* the first batch's response left out the first thread's id, and the
\* later batches were summarised all the same
C3_Witness ==
    /\ pc = "gists"
    /\ total > batch
    /\ threads[1].summary = EmptyObject
    /\ threads[2].summary # EmptyObject
    /\ threads[total].summary # EmptyObject

\* p is the text s cut after some character
IsTextPrefix(p, s) ==
    \/ p = <<>>
    \/ /\ Len(p) <= Len(s)
       /\ \A k \in 1..(Len(p) - 1) : p[k] = s[k]
       /\ p[Len(p)].src = s[Len(p)].src
       /\ p[Len(p)].n \in 1..s[Len(p)].n

\* C4: the corpus of a synthesis call is the joined entries when these
\* have at most 15000 characters, and otherwise their first 15000
\* characters: a prefix of length exactly 15000.
C4_CorpusTruncation ==
    \A k \in 1..Len(calls) :
        calls[k].kind = "synthesis" =>
            LET joined == JoinedEntries(threads)
                sent   == calls[k].corpus
            IN  /\ TextLen(joined) > CorpusCap =>
                      /\ TextLen(sent) = CorpusCap
                      /\ IsTextPrefix(sent, joined)
                /\ TextLen(joined) <= CorpusCap => sent = joined

\* a synthesis call whose joined entries were one character over the cap
C4_Witness ==
    /\ calls # <<>>
    /\ calls[Len(calls)].kind = "synthesis"
    /\ TextLen(JoinedEntries(threads)) = CorpusCap + 1
    /\ Len(threads) = 2

\* the positions at which a pipeline stage is running
PipelinePcs == {"fetch", "fetch_wait", "summarise", "batch", "batch_wait",
                "gists", "report", "report_wait", "txt", "pdf", "pdf2"}

\* the positions after fetch_threads has returned
AfterFetchPcs == PipelinePcs \ {"fetch", "fetch_wait"}

NonBlank(line) == \E j \in 1..Len(line) : line[j] \notin {" ", "\t"}

NonBlankLines(text) == SelectSeq(text, NonBlank)

\* r is l without the whitespace at its two ends
IsStripOf(r, l) ==
    \E a \in 1..(Len(l) + 1), b \in 0..Len(l) :
        /\ r = SubSeq(l, a, b)
        /\ \A j \in 1..Len(l) : (j < a \/ j > b) => l[j] \in {" ", "\t"}
        /\ r # <<>> => r[1] \notin {" ", "\t"} /\ r[Len(r)] \notin {" ", "\t"}

\* C5: the questions read from the text area are its non-blank lines,
\* stripped, in input order, and only the first 5 of them; a press of Run
\* with no non-blank line starts no pipeline stage and issues no call; and
\* whenever a pipeline stage runs or a call has been issued the question
\* list has 1 to 5 items and is the list that was read.
C5_QuestionsOneToFive ==
    [][/\ pc' = "run" =>
             LET typed == NonBlankLines(qs_text') IN
             /\ Len(questions') = IF Len(typed) >= 6 THEN 5 ELSE Len(typed)
             /\ \A k \in 1..Len(questions') : IsStripOf(questions'[k], typed[k])
       /\ (pc = "run" /\ NonBlankLines(qs_text) = <<>>) =>
             pc' \notin PipelinePcs /\ calls' = <<>>
       /\ (pc' \in PipelinePcs \/ calls' # <<>>) =>
             /\ Len(questions') \in 1..5
             /\ questions' = questions
      ]_vars

\* Run was pressed on six non-blank lines: the first five were kept
C5_Witness ==
    /\ pc = "run"
    /\ run_clicked
    /\ subreddit # <<>>
    /\ Len(NonBlankLines(qs_text)) = 6
    /\ questions = <<<<"a">>, <<"b">>, <<"b">>, <<"a">>, <<"a">>>>

\* C6: an execution in which fetch, summarisation and synthesis succeeded
\* ends by reaching the last statement of the script, having offered
\* reddit_research_report.txt and reddit_research_report.pdf once each,
\* both made from the report generate_report returned.
C6_SuccessfulRunCompletes ==
    (pc \in Terminal /\ report_md # <<>>) =>
        /\ pc = "done"
        /\ Len(downloads) = 2
        /\ downloads[1].file_name = "reddit_research_report.txt"
        /\ downloads[2].file_name = "reddit_research_report.pdf"
        /\ downloads[1].from = report_md
        /\ downloads[2].from = report_md

\* C7: a pipeline stage runs, or a request to the forum or to the language
\* model has been issued, only in an execution in which the session is
\* authenticated, the three credentials are non-empty, Run was pressed,
\* the subreddit is non-empty and there is at least one question.
C7_NoStageWithoutPreconditions ==
    (pc \in PipelinePcs \/ calls # <<>> \/ pending # {}) =>
        /\ authenticated
        /\ keys.openai /\ keys.client_id /\ keys.client_secret
        /\ run_clicked
        /\ subreddit # <<>>
        /\ questions # <<>>

\* the first forum request is outstanding
C7_Witness ==
    /\ pc = "fetch_wait"
    /\ Len(calls) = 1
    /\ pending = {1}

CallRank(kind) ==
    CASE kind = "forum" -> 1
      [] kind = "summarise" -> 2
      [] kind = "synthesis" -> 3

\* C8: at most one request is outstanding and it is the last one issued;
\* the requests of an execution are forum requests, then summarisation
\* requests, then at most one synthesis request; and a download is offered
\* only after the one synthesis request was answered with the report.
C8_PipelineOrder ==
    /\ Cardinality(pending) <= 1
    /\ pending \subseteq {Len(calls)}
    /\ \A a \in 1..Len(calls) : \A b \in a..Len(calls) :
          CallRank(calls[a].kind) <= CallRank(calls[b].kind)
    /\ Len(CallsOfKind("synthesis")) <= 1
    /\ (downloads # <<>> \/ pc \in {"txt", "pdf", "pdf2"}) =>
          /\ Len(CallsOfKind("synthesis")) = 1
          /\ pending = {}
          /\ report_md \in Reports
          /\ \A d \in 1..Len(downloads) : downloads[d].from = report_md

\* both downloads were offered after seven threads went through two
\* summarisation batches and one synthesis request
C8_Witness ==
    /\ Len(downloads) = 2
    /\ Len(CallsOfKind("forum")) = 8
    /\ Len(CallsOfKind("summarise")) = 2
    /\ Len(CallsOfKind("synthesis")) = 1

StageErrors == {"fetch", "summarise call", "json.loads", "summaries.get", "synthesis"}

FailedKind(e) == IF e = "fetch" THEN "forum"
                 ELSE IF e = "synthesis" THEN "synthesis" ELSE "summarise"

\* C9: when the forum, a summarisation batch (its call or the reading of
\* its response as a mapping) or the synthesis call fails, the execution
\* ends there: the failed request is the last one issued, the threads of
\* the failed batch and of the batches after it have no summary, no report
\* exists and no download is offered; nothing follows but a new execution.
C9_FailureHalts ==
    [][/\ error' \in StageErrors =>
             /\ pc' = "crashed"
             /\ pending' = {}
             /\ downloads' = <<>>
             /\ report_md' = <<>>
             /\ calls'[Len(calls')].kind = FailedKind(error')
             /\ error' = "fetch" => threads' = <<>>
             /\ FailedKind(error') = "summarise" =>
                   \A k \in (i' + 1)..Len(threads') : ~HasSummary(threads'[k])
       /\ pc = "crashed" => pc' = "gate" /\ calls' = <<>> /\ error' = "none"
      ]_vars

\* the first of two batches failed to parse
C9_Witness ==
    /\ pc = "crashed"
    /\ error = "json.loads"
    /\ Len(threads) = 7
    /\ i = 0
    /\ Len(CallsOfKind("summarise")) = 1

FetchedFields == {"id", "title", "body", "comments", "url", "created"}

\* C10: once fetch_threads has returned, a step changes a thread only by
\* adding its summary, which happens in summarise_threads and at most once
\* per thread; the fetched fields keep their values and the list keeps its
\* length and order; after summarise_threads has returned every thread
\* was assigned its summary exactly once.
C10_ThreadsFrame ==
    [][(pc \in AfterFetchPcs) =>
          /\ Len(threads') = Len(threads)
          /\ \A k \in 1..Len(threads) :
                /\ \A f \in FetchedFields : threads'[k][f] = threads[k][f]
                /\ DOMAIN threads'[k] \subseteq FetchedFields \cup {"summary"}
                /\ threads'[k] # threads[k] =>
                      /\ pc = "batch_wait"
                      /\ ~HasSummary(threads[k])
                      /\ HasSummary(threads'[k])
                /\ assigned'[k] <= 1
          /\ pc' \in AfterFetchPcs \ {"summarise", "batch", "batch_wait"} =>
                \A k \in 1..Len(threads) : assigned'[k] = 1
      ]_vars

\* seven summarised threads reached the download section
C10_Witness ==
    /\ pc = "pdf2"
    /\ Len(threads) = 7
    /\ \A k \in 1..7 : assigned[k] = 1 /\ HasSummary(threads[k])

====
